---- MODULE Spec2Model ----
(***************************************************************************)
(* Model of aya's per-CPU perf ring-buffer consumer                        *)
(* (aya/src/maps/perf_map.rs): PerfBuffer::open, PerfBuffer::read_events,  *)
(* Drop for PerfBuffer, and the kernel-side producer that the unit tests   *)
(* stand in for with write()/write_sample().                               *)
(*                                                                         *)
(* The ring is modelled byte by byte.  Integers are encoded in the ring    *)
(* little-endian (from_ne_bytes on the supported targets) and decoded by   *)
(* the reader from the bytes it actually fetches, so that a wrong offset,  *)
(* a missing wrap or a short copy shows up as a wrong value.               *)
(*                                                                         *)
(* The page size is scaled down from 4096 to 8 bytes: the code only needs  *)
(* it to be a multiple of the 8-byte record alignment.                     *)
(***************************************************************************)
EXTENDS Integers, Sequences, FiniteSets, TLC

\* ------------------------------------------------------------------------
\* Program constants
\* ------------------------------------------------------------------------

\* mem::size_of::<perf_event_header>() : type u32, misc u16, size u16
HeaderSize == 8
\* mem::size_of::<u32>() : the sample length word
U32Size == 4
\* mem::size_of::<u64>() : the id and count words of a LOST record
U64Size == 8
\* perf_event_type::PERF_RECORD_SAMPLE
PERF_RECORD_SAMPLE == 9
\* perf_event_type::PERF_RECORD_LOST
PERF_RECORD_LOST == 2
\* perf_event_type::PERF_RECORD_MMAP, standing for "any other type"
PERF_RECORD_MMAP == 1
\* page_size handed to open (sysconf(_SC_PAGESIZE)), scaled down
PageSize == 8
\* mem::size_of::<LostSamples>() : header + id + count
LostSize == 24

\* ------------------------------------------------------------------------
\* Bounds of the model
\* ------------------------------------------------------------------------

\* records the producer appends in one behaviour
MaxRecords == 3
\* output buffers handed to one read_events call
MaxBufs == 2
\* largest page_count tried by open
MaxPageCount == 9
\* iterations of the loop of read_events followed in one call (it only binds
\* once a corrupt header keeps the loop from reaching head)
StepCap == 8
\* ... and while its tail is below this offset, which no record of a ring
\* with intact headers reaches
TailCap == LostSize * (MaxRecords + 2)
\* calls are followed while fewer payloads than this have been handed back
\* (it only binds once a corrupt header makes a record come up again)
DeliveredCap == 6
\* records written in the unit-test setup
TestRecords == 2

\* sample payload lengths the producer writes (4 mod 8, as the kernel pads
\* a raw sample so that the record is a multiple of 8 bytes)
SampleLens == {12}
\* capacities of the output buffers the caller brings: one too small for a
\* sample, one that holds it
Caps == {4, 12}

\* ------------------------------------------------------------------------
\* Bytes and integers
\* ------------------------------------------------------------------------

\* largest value of a byte
ByteMax == 256 - 1

\* content of a caller's buffer before the call
StaleByte == ByteMax

\* value.to_ne_bytes() on a little-endian target, n bytes
RECURSIVE ToBytes(_, _)
ToBytes(v, n) ==
    IF n = 0 THEN <<>> ELSE <<v % 256>> \o ToBytes(v \div 256, n - 1)

\* The model's integers are narrower than u64: every value of 2^30 or more
\* is held as Huge (only a corrupt record yields one).
Huge == 2 ^ 30
Clamp(n) == IF n > Huge THEN Huge ELSE n

\* u32::from_ne_bytes / u64::from_ne_bytes on a little-endian target
RECURSIVE FromBytes(_)
FromBytes(s) ==
    IF s = <<>> THEN 0
    ELSE LET rest == FromBytes(Tail(s))
         IN  IF rest >= 2 ^ 22 THEN Huge ELSE Head(s) + 256 * rest

\* is_power_of_two() as a mutant makes it: n & (n - 1) == 0, true of 0
IsPowerOfTwo_Zero(n) == n \in {0, 1, 2, 4, 8, 16, 32, 64}

\* is_power_of_two()
IsPowerOfTwo(n) == n \in {1, 2, 4, 8, 16, 32, 64}

\* ------------------------------------------------------------------------
\* Memory of the mapping
\* ------------------------------------------------------------------------

\* What a load past the end of the data area yields: the build decides, so
\* the model draws it (Fault: the access traps; a byte: whatever lies there).
Fault == 0 - 1
OobOutcomes == {Fault, 0, 9}

\* the byte at base + i for a data area of mmap_size bytes; g is what the
\* memory past the data area yields
MemByte(ring, mmap_size, i, g) == IF i < mmap_size THEN ring[i] ELSE g

\* slice::from_raw_parts((base + from) as *const u8, n)
MemSlice(ring, mmap_size, from, n, g) ==
    [i \in 1..n |-> MemByte(ring, mmap_size, from + i - 1, g)]

Faulted(bytes) == \E i \in 1..Len(bytes) : bytes[i] = Fault

\* ------------------------------------------------------------------------
\* fill_buf (closure in read_events)
\* ------------------------------------------------------------------------

\* fill_buf as a mutant makes it: one contiguous copy, whatever the offsets
FillBuf_NoWrap(ring, start_off, mmap_size, len, g) ==
    LET bytes == MemSlice(ring, mmap_size, start_off % mmap_size, len, g)
    IN  [st |-> IF Faulted(bytes) THEN "fault" ELSE "ok", bytes |-> bytes]

\* Copies len bytes starting at ring offset start_off into an output slice
\* of length len.  st is "ok", "panic" (out_buf[..size] with size > len is a
\* slice index out of range) or "fault" (a load past the mapping trapped).
FillBuf(ring, start_off, mmap_size, len, g) ==
    LET end   == (start_off + len) % mmap_size
        start == start_off % mmap_size
    IN  IF start < end
        THEN LET bytes == MemSlice(ring, mmap_size, start, len, g)
             IN  [st |-> IF Faulted(bytes) THEN "fault" ELSE "ok", bytes |-> bytes]
        ELSE LET size == mmap_size - start
             IN  IF size > len
                 THEN [st |-> "panic", bytes |-> <<>>]
                 ELSE LET bytes == MemSlice(ring, mmap_size, start, size, g)
                                   \o MemSlice(ring, mmap_size, 0, len - size, g)
                      IN  [st |-> IF Faulted(bytes) THEN "fault" ELSE "ok",
                           bytes |-> bytes]

\* ------------------------------------------------------------------------
\* ptr::read_unaligned((base + event_start) as *const perf_event_header)
\* ------------------------------------------------------------------------

\* the header load as a mutant makes it: size taken from the misc field
ReadHeader_SizeFromMisc(ring, mmap_size, event_start, g) ==
    LET bytes == MemSlice(ring, mmap_size, event_start, HeaderSize, g)
    IN  IF Faulted(bytes)
        THEN [st |-> "fault", type_ |-> 0, misc |-> 0, size |-> 0]
        ELSE [st    |-> "ok",
              type_ |-> FromBytes(SubSeq(bytes, 1, 4)),
              misc  |-> FromBytes(SubSeq(bytes, 5, 6)),
              size  |-> FromBytes(SubSeq(bytes, 5, 6))]

\* One contiguous load of HeaderSize bytes: it does not wrap.
ReadHeader(ring, mmap_size, event_start, g) ==
    LET bytes == MemSlice(ring, mmap_size, event_start, HeaderSize, g)
    IN  IF Faulted(bytes)
        THEN [st |-> "fault", type_ |-> 0, misc |-> 0, size |-> 0]
        ELSE [st    |-> "ok",
              type_ |-> FromBytes(SubSeq(bytes, 1, 4)),
              misc  |-> FromBytes(SubSeq(bytes, 5, 6)),
              size  |-> FromBytes(SubSeq(bytes, 7, 8))]

\* ------------------------------------------------------------------------
\* read_event (closure in read_events)
\* ------------------------------------------------------------------------

\* An output buffer (BytesMut): its capacity and its current bytes.
Buffer(cap, data) == [cap |-> cap, data |-> data]

\* the first match as a mutant makes it: a PERF_RECORD_MMAP record is taken
\* for one that carries a count
IsDecoded_Mmap(event_type) ==
    event_type \in {PERF_RECORD_SAMPLE, PERF_RECORD_LOST, PERF_RECORD_MMAP}

\* `PERF_RECORD_SAMPLE | PERF_RECORD_LOST => ...`, against `_ => return
\* Ok(None)`
IsDecoded(event_type) == event_type \in {PERF_RECORD_SAMPLE, PERF_RECORD_LOST}

\* offset of `count` in a LOST record, as a mutant reads it: the id instead
LostCountOffset_Id == HeaderSize

\* offset of `count` in a LOST record: past the header and the u64 id
LostCountOffset == HeaderSize + U64Size

\* Result of read_event on the record at event_start with target buffer buf:
\*   kind "some"  Ok(Some((read, lost)))
\*        "none"  Ok(None)
\*        "err"   Err(MoreSpaceNeeded { size })
\*        "panic" / "fault"  the call does not return
\* buf is the target buffer as the call leaves it.
ReadEvent(ring, mmap_size, event_start, event_type, buf, g) ==
    LET none == [kind |-> "none", read |-> 0, lost |-> 0, size |-> 0, buf |-> buf]
    IN
    IF ~IsDecoded(event_type)
    THEN none
    ELSE
      LET szw == FillBuf(ring, event_start + HeaderSize, mmap_size, U32Size, g)
          sample_size == FromBytes(szw.bytes)
          sample_start == (event_start + HeaderSize + U32Size) % mmap_size
      IN
      IF szw.st # "ok"
      THEN [none EXCEPT !.kind = szw.st]
      ELSE IF event_type = PERF_RECORD_SAMPLE
      THEN
        \* buf.clear() comes before the capacity test
        LET cleared == Buffer(buf.cap, <<>>)
        IN  IF sample_size > buf.cap
            THEN [kind |-> "err", read |-> 0, lost |-> 0,
                  size |-> sample_size, buf |-> cleared]
            ELSE LET f == FillBuf(ring, sample_start, mmap_size, sample_size, g)
                 IN  IF f.st # "ok"
                     THEN [kind |-> f.st, read |-> 0, lost |-> 0, size |-> 0,
                           buf |-> cleared]
                     ELSE [kind |-> "some", read |-> 1, lost |-> 0, size |-> 0,
                           buf |-> Buffer(buf.cap, f.bytes)]
      ELSE
        LET c == FillBuf(ring, event_start + LostCountOffset, mmap_size,
                         U64Size, g)
        IN  IF c.st # "ok"
            THEN [none EXCEPT !.kind = c.st]
            ELSE [kind |-> "some", read |-> 0, lost |-> FromBytes(c.bytes),
                  size |-> 0, buf |-> buf]

\* ------------------------------------------------------------------------
\* State
\* ------------------------------------------------------------------------

VARIABLES
    life,        \* "unopened", "open", "failed" (open returned Err), "dropped"
    openResult,  \* what open returned: "none" before the call, "Ok", or the error
    openPageCount, \* the page_count open was called with (0 before the call)
    fds,         \* file descriptors obtained from perf_event_open and not closed
    maps,        \* mappings obtained from mmap and not unmapped
    syscalls,    \* the syscalls made so far, in order
    size,        \* PerfBuffer.size = page_size * page_count
    ring,        \* the data area: offset -> byte
    data_head,   \* perf_event_mmap_page.data_head (written by the producer)
    data_tail,   \* perf_event_mmap_page.data_tail (written by read_events)
    pc,          \* where read_events is: "idle", "loop", "break", "err",
                 \* "store_ok", "store_err", "panicked", "fault"
    head,        \* read_events' local head
    tail,        \* read_events' local tail
    buf_n,       \* read_events' local buf_n
    events,      \* read_events' local events
    err,         \* the error e of the failing arm (its size field)
    buffers,     \* the caller's output buffers
    result,      \* what the last read_events call returned
    written,     \* history: the records appended by the producer
    delivered,   \* history: the sample payloads handed back by Ok calls
    entry,       \* history: data_tail, data_head and buffers at the call's entry,
                 \* and how the call follows the one before it
    handled,     \* history: start offsets of the records the current call's
                 \* loop has finished with (tail advanced past them)
    fenced,      \* history: a fence was issued and no data was read since
    stores,      \* history: stores to data_tail made by the current call
    steps,       \* history: iterations of the loop body begun by the current call
    probe        \* a direct application of fill_buf: its inputs and its output

vars == <<life, openResult, openPageCount, fds, maps, syscalls, size, ring, data_head,
          data_tail, pc, head, tail, buf_n, events, err, buffers, result,
          written, delivered, entry, handled, fenced, stores, steps, probe>>

lifeVars   == <<life, openResult, openPageCount, fds, maps, syscalls, size>>
sharedVars == <<ring, data_head, data_tail>>
localVars  == <<pc, head, tail, buf_n, events, err, buffers, result>>
histVars   == <<written, delivered, entry, handled, fenced, stores, steps, probe>>

NoResult == [kind |-> "none", read |-> 0, lost |-> 0, size |-> 0, exit |-> "none"]
NoEntry  == [tail |-> 0, head |-> 0, buffers |-> <<>>, after |-> "other", need |-> 0]
NoProbe  == [off |-> 0, len |-> 0, st |-> "none", bytes |-> <<>>]

Init ==
    /\ life = "unopened"
    /\ openResult = "none"
    /\ openPageCount = 0
    /\ fds = 0
    /\ maps = 0
    /\ syscalls = <<>>
    /\ size = 0
    /\ ring = <<>>
    /\ data_head = 0
    /\ data_tail = 0
    /\ pc = "idle"
    /\ head = 0
    /\ tail = 0
    /\ buf_n = 0
    /\ events = [read |-> 0, lost |-> 0]
    /\ err = 0
    /\ buffers = <<>>
    /\ result = NoResult
    /\ written = <<>>
    /\ delivered = <<>>
    /\ entry = NoEntry
    /\ handled = <<>>
    /\ fenced = FALSE
    /\ stores = 0
    /\ steps = 0
    /\ probe = NoProbe

\* ------------------------------------------------------------------------
\* PerfBuffer::open and Drop for PerfBuffer
\* ------------------------------------------------------------------------

\* drop as a mutant makes it: a failed disable ends it (`?` in place of
\* `let _ =`)
DropCalls_StopOnError(sz, page_size, disable_ok) ==
    IF disable_ok
    THEN << <<"ioctl_disable", TRUE>>,
            <<"munmap", sz + page_size>>,
            <<"close", TRUE>> >>
    ELSE << <<"ioctl_disable", FALSE>> >>

\* The syscalls of Drop::drop, in program order.  disable_ok is the outcome
\* of the PERF_EVENT_IOC_DISABLE ioctl, which drop ignores.
DropCalls(sz, page_size, disable_ok) ==
    << <<"ioctl_disable", disable_ok>>,
       <<"munmap", sz + page_size>>,
       <<"close", TRUE>> >>

\* open(cpu_id, page_size, page_count) with the outcomes of its three
\* syscalls.  The whole function, the drop of the partially built PerfBuffer
\* on the `?` of the enable ioctl included.
Open(page_count, open_ok, mmap_ok, enable_ok, disable_ok) ==
    /\ life = "unopened"
    /\ openPageCount' = page_count
    /\ LET sz == PageSize * page_count
       IN
       IF ~IsPowerOfTwo(page_count)
       THEN /\ openResult' = "InvalidPageCount"
            /\ life' = "failed"
            /\ UNCHANGED <<fds, maps, syscalls, size, ring>>
       ELSE IF ~open_ok
       THEN /\ openResult' = "OpenError"
            /\ life' = "failed"
            /\ syscalls' = syscalls \o << <<"perf_event_open", FALSE>> >>
            /\ UNCHANGED <<fds, maps, size, ring>>
       ELSE IF ~mmap_ok
       THEN \* return Err(MMapError): fd is a plain RawFd, nothing closes it
            /\ openResult' = "MMapError"
            /\ life' = "failed"
            /\ syscalls' = syscalls \o << <<"perf_event_open", TRUE>>,
                                          <<"mmap", FALSE>> >>
            /\ fds' = fds + 1
            /\ UNCHANGED <<maps, size, ring>>
       ELSE IF ~enable_ok
       THEN \* perf_buf is dropped when `?` returns
            /\ openResult' = "PerfEventEnableError"
            /\ life' = "failed"
            /\ syscalls' = syscalls \o << <<"perf_event_open", TRUE>>,
                                          <<"mmap", TRUE>>,
                                          <<"ioctl_enable", FALSE>> >>
                                    \o DropCalls(sz, PageSize, disable_ok)
            /\ UNCHANGED <<fds, maps, size, ring>>
       ELSE /\ openResult' = "Ok"
            /\ life' = "open"
            /\ syscalls' = syscalls \o << <<"perf_event_open", TRUE>>,
                                          <<"mmap", TRUE>>,
                                          <<"ioctl_enable", TRUE>> >>
            /\ fds' = fds + 1
            /\ maps' = maps + 1
            /\ size' = sz
            /\ ring' = [i \in 0..(sz - 1) |-> 0]
    /\ UNCHANGED <<data_head, data_tail>>
    /\ UNCHANGED localVars
    /\ UNCHANGED histVars

\* drop(&mut self): the Ring is owned, so no read_events call is in progress
\* (or its panic is unwinding).  With the Ring gone its mapping, the locals
\* of its calls and their history are gone too.
Drop(disable_ok) ==
    /\ life = "open"
    /\ pc \in {"idle", "panicked"}
    /\ life' = "dropped"
    /\ syscalls' = syscalls \o DropCalls(size, PageSize, disable_ok)
    /\ fds' = fds - 1
    /\ maps' = maps - 1
    /\ ring' = <<>>
    /\ data_head' = 0
    /\ data_tail' = 0
    /\ pc' = "idle"
    /\ head' = 0
    /\ tail' = 0
    /\ buf_n' = 0
    /\ events' = [read |-> 0, lost |-> 0]
    /\ err' = 0
    /\ buffers' = <<>>
    /\ result' = NoResult
    /\ written' = <<>>
    /\ delivered' = <<>>
    /\ entry' = NoEntry
    /\ handled' = <<>>
    /\ fenced' = FALSE
    /\ stores' = 0
    /\ steps' = 0
    /\ UNCHANGED <<openResult, openPageCount, size, probe>>

\* ------------------------------------------------------------------------
\* The producer (the kernel; write / write_sample in the unit tests)
\* ------------------------------------------------------------------------

\* perf_event_header { type_, misc: 0, size } as bytes
HeaderBytes(type_, sz) == ToBytes(type_, 4) \o ToBytes(0, 2) \o ToBytes(sz, 2)

\* payload of the k-th record: bytes that tell records and positions apart
Payload(k, n) == [j \in 1..n |-> 16 * k + j]

\* count field of the k-th record when it is a LOST record (two bytes wide)
LostCount(k) == 256 + k

\* the kinds of record the producer writes
RecordKinds ==
    {[type_ |-> PERF_RECORD_SAMPLE, n |-> l] : l \in SampleLens}
    \cup {[type_ |-> PERF_RECORD_LOST, n |-> 0], [type_ |-> PERF_RECORD_MMAP, n |-> 0]}

\* header.size of a record of this kind: PerfSample<T> is header + u32 + T,
\* LostSamples is header + id + count, any other record is its header
RecordSize(kind) ==
    IF kind.type_ = PERF_RECORD_SAMPLE THEN HeaderSize + U32Size + kind.n
    ELSE IF kind.type_ = PERF_RECORD_LOST THEN LostSize
    ELSE HeaderSize

\* the bytes of the k-th record
RecordBytes(kind, k) ==
    IF kind.type_ = PERF_RECORD_SAMPLE
    THEN HeaderBytes(kind.type_, RecordSize(kind)) \o ToBytes(kind.n, U32Size)
         \o Payload(k, kind.n)
    ELSE IF kind.type_ = PERF_RECORD_LOST
    THEN HeaderBytes(kind.type_, RecordSize(kind)) \o ToBytes(k, U64Size)
         \o ToBytes(LostCount(k), U64Size)
    ELSE HeaderBytes(kind.type_, RecordSize(kind))

\* ptr::write_unaligned into the data area, wrapping at its end
WriteRing(r, mmap_size, off, bytes) ==
    [i \in DOMAIN r |->
        LET d == (i - off) % mmap_size
        IN  IF d < Len(bytes) THEN bytes[d + 1] ELSE r[i]]

\* the history entry of a record appended at unbounded offset start
Rec(kind, k, start) ==
    [start   |-> start,
     size    |-> RecordSize(kind),
     type_   |-> kind.type_,
     payload |-> IF kind.type_ = PERF_RECORD_SAMPLE THEN Payload(k, kind.n) ELSE <<>>,
     count   |-> IF kind.type_ = PERF_RECORD_LOST THEN LostCount(k) ELSE 0]

\* The producer appends the k-th record whole at data_head and then advances
\* data_head, only while the record fits in the free space.
AppendRecord(kind) ==
    /\ life = "open"
    /\ pc \notin {"panicked", "fault"}
    /\ data_head + RecordSize(kind) - data_tail <= size
    /\ LET k == Len(written) + 1
       IN  /\ ring' = WriteRing(ring, size, data_head % size, RecordBytes(kind, k))
           /\ written' = Append(written, Rec(kind, k, data_head))
    /\ data_head' = data_head + RecordSize(kind)
    /\ UNCHANGED data_tail
    /\ UNCHANGED lifeVars
    /\ UNCHANGED localVars
    /\ UNCHANGED <<delivered, entry, handled, fenced, stores, steps, probe>>

\* the kernel as producer: 8-byte aligned records
Produce(kind) ==
    /\ Len(written) < MaxRecords
    /\ AppendRecord(kind)

\* ------------------------------------------------------------------------
\* PerfBuffer::read_events
\* ------------------------------------------------------------------------

\* a caller's buffer of capacity c before the call
Fresh(c) == Buffer(c, IF c >= 1 THEN <<StaleByte>> ELSE <<>>)

\* the buffer slices a caller may pass
BufferChoices ==
    UNION {{[i \in 1..n |-> Fresh(caps[i])] : caps \in [1..n -> Caps]} : n \in 0..MaxBufs}

\* the capacities of a slice of buffers
Capacities(bufs) == [i \in 1..Len(bufs) |-> bufs[i].cap]

\* The entry history of a call made now with bufs.  after is "early" when
\* the last call returned Ok at a sample too large for its target buffer and
\* bufs has the capacities of that call's buffers, "err" when the last call
\* failed with MoreSpaceNeeded { size: need }, and "other" otherwise.
EntryOf(bufs) ==
    [tail    |-> data_tail,
     head    |-> data_head,
     buffers |-> bufs,
     after   |-> IF /\ result.kind = "Ok"
                    /\ result.exit = "oversize"
                    /\ Capacities(bufs) = Capacities(buffers)
                 THEN "early"
                 ELSE IF result.kind = "MoreSpaceNeeded" THEN "err"
                 ELSE "other",
     need    |-> IF result.kind = "MoreSpaceNeeded" THEN result.size ELSE 0]

\* the entry as a mutant makes it: no test for an empty slice of buffers
ReadEventsEntry_NoCheck(bufs) ==
    /\ life = "open"
    /\ pc = "idle"
    /\ Len(delivered) < DeliveredCap
    /\ buffers' = bufs
    /\ entry' = EntryOf(bufs)
    /\ handled' = <<>>
    /\ stores' = 0
    /\ steps' = 0
    /\ fenced' = FALSE
    /\ pc' = "loop"
    /\ head' = data_head
    /\ tail' = data_tail
    /\ buf_n' = 0
    /\ events' = [read |-> 0, lost |-> 0]
    /\ err' = 0
    /\ result' = NoResult
    /\ UNCHANGED lifeVars
    /\ UNCHANGED sharedVars
    /\ UNCHANGED <<written, delivered, probe>>

\* Entry of read_events(buffers): the NoBuffers test, then the loads of
\* data_head and data_tail.
ReadEventsEntry(bufs) ==
    /\ life = "open"
    /\ pc = "idle"
    /\ Len(delivered) < DeliveredCap
    /\ buffers' = bufs
    /\ entry' = EntryOf(bufs)
    /\ handled' = <<>>
    /\ stores' = 0
    /\ steps' = 0
    /\ fenced' = FALSE
    /\ IF bufs = <<>>
       THEN /\ result' = [NoResult EXCEPT !.kind = "NoBuffers"]
            /\ UNCHANGED <<pc, head, tail, buf_n, events, err>>
       ELSE /\ pc' = "loop"
            /\ head' = data_head
            /\ tail' = data_tail
            /\ buf_n' = 0
            /\ events' = [read |-> 0, lost |-> 0]
            /\ err' = 0
            /\ result' = NoResult
    /\ UNCHANGED lifeVars
    /\ UNCHANGED sharedVars
    /\ UNCHANGED <<written, delivered, probe>>

\* the loop test as a mutant makes it: data_head is loaded again each time
LoopDone_Reload == data_head = tail \/ buf_n = Len(buffers)

\* `while head != tail { if buf_n == buffers.len() { break; } ... }`
LoopDone == head = tail \/ buf_n = Len(buffers)

\* the tail advance as a mutant makes it: past the header only
Advance_Header(t, event_size) == t + HeaderSize

\* the tail advance as a mutant makes it: `tail += event_size` left out
Advance_None(t, event_size) == t

\* the tail advance as a mutant makes it: header.size taken as the size of
\* what follows the header
Advance_PlusHeader(t, event_size) == t + event_size + HeaderSize

\* `tail += event_size`
Advance(t, event_size) == t + event_size

\* what the memory past the data area yields, drawn only when the header
\* load reaches it
OobChoices ==
    IF size > 0 /\ (tail % size) + HeaderSize > size THEN OobOutcomes ELSE {0}

\* One iteration of the loop body: the header load, read_event, the match
\* on its result, and `tail += event_size`.
LoopStep(g) ==
    /\ pc = "loop"
    /\ ~LoopDone
    /\ Len(handled) < StepCap
    /\ tail < TailCap
    /\ LET event_start == tail % size
           event == ReadHeader(ring, size, event_start, g)
           event_size == event.size
           r == ReadEvent(ring, size, event_start, event.type_, buffers[buf_n + 1], g)
       IN
       /\ handled' = IF event.st = "ok" /\ r.kind \in {"some", "none"}
                     THEN Append(handled, tail) ELSE handled
       /\ IF event.st = "fault" \/ r.kind = "fault"
          THEN /\ pc' = "fault"
               /\ UNCHANGED <<tail, buf_n, events, err, buffers>>
          ELSE IF r.kind = "panic"
          THEN /\ pc' = "panicked"
               /\ buffers' = [buffers EXCEPT ![buf_n + 1] = r.buf]
               /\ UNCHANGED <<tail, buf_n, events, err>>
          ELSE IF r.kind = "some"
          THEN /\ buf_n' = IF r.read > 0 THEN buf_n + 1 ELSE buf_n
               /\ events' = [read |-> events.read + r.read, lost |-> Clamp(events.lost + r.lost)]
               /\ buffers' = [buffers EXCEPT ![buf_n + 1] = r.buf]
               /\ tail' = Advance(tail, event_size)
               /\ UNCHANGED <<pc, err>>
          ELSE IF r.kind = "none"
          THEN /\ tail' = Advance(tail, event_size)
               /\ UNCHANGED <<pc, buf_n, events, err, buffers>>
          ELSE IF events.read > 0
          THEN \* Err(MoreSpaceNeeded) if events.read > 0 => break
               /\ pc' = "break"
               /\ buffers' = [buffers EXCEPT ![buf_n + 1] = r.buf]
               /\ UNCHANGED <<tail, buf_n, events, err>>
          ELSE \* Err(e): fence, store, return Err(e)
               /\ pc' = "err"
               /\ err' = r.size
               /\ buffers' = [buffers EXCEPT ![buf_n + 1] = r.buf]
               /\ UNCHANGED <<tail, buf_n, events>>
    /\ fenced' = FALSE
    /\ steps' = steps + 1
    /\ UNCHANGED <<head, result>>
    /\ UNCHANGED lifeVars
    /\ UNCHANGED sharedVars
    /\ UNCHANGED <<written, delivered, entry, stores, probe>>

\* LoopStep seen through the counter of iterations: among the steps of the
\* program, those that start inside the loop and count one iteration more
\* are the LoopStep steps, and one is possible whenever LoopStep's guard
\* holds.
LoopRuns ==
    /\ pc = "loop"
    /\ ~LoopDone
    /\ Len(handled) < StepCap
    /\ tail < TailCap
    /\ steps' = steps + 1

\* atomic::fence(Ordering::SeqCst) after the loop
FenceOk ==
    /\ \/ pc = "loop" /\ LoopDone
       \/ pc = "break"
    /\ pc' = "store_ok"
    /\ fenced' = TRUE
    /\ UNCHANGED <<head, tail, buf_n, events, err, buffers, result>>
    /\ UNCHANGED lifeVars
    /\ UNCHANGED sharedVars
    /\ UNCHANGED <<written, delivered, entry, handled, stores, steps, probe>>

\* how the loop of an Ok call ended
ExitKind ==
    IF head = tail THEN "drained"
    ELSE IF buf_n = Len(buffers) THEN "full"
    ELSE "oversize"

\* the final store as a mutant makes it: the head snapshot is published
StoreOk_Head ==
    /\ pc = "store_ok"
    /\ data_tail' = head
    /\ stores' = stores + 1
    /\ UNCHANGED steps
    /\ result' = [kind |-> "Ok", read |-> events.read, lost |-> events.lost,
                  size |-> 0, exit |-> ExitKind]
    /\ delivered' = delivered \o [i \in 1..events.read |-> buffers[i].data]
    /\ pc' = "idle"
    /\ UNCHANGED <<head, tail, buf_n, events, err, buffers>>
    /\ UNCHANGED lifeVars
    /\ UNCHANGED <<ring, data_head>>
    /\ UNCHANGED <<written, entry, handled, fenced, probe>>

\* `(*header).data_tail = tail as u64; return Ok(events)`
StoreOk ==
    /\ pc = "store_ok"
    /\ data_tail' = tail
    /\ stores' = stores + 1
    /\ UNCHANGED steps
    /\ result' = [kind |-> "Ok", read |-> events.read, lost |-> events.lost,
                  size |-> 0, exit |-> ExitKind]
    /\ delivered' = delivered \o [i \in 1..events.read |-> buffers[i].data]
    /\ pc' = "idle"
    /\ UNCHANGED <<head, tail, buf_n, events, err, buffers>>
    /\ UNCHANGED lifeVars
    /\ UNCHANGED <<ring, data_head>>
    /\ UNCHANGED <<written, entry, handled, fenced, probe>>

\* the failing arm as a mutant makes it: no fence before the store
FenceErr_NoFence ==
    /\ pc = "err"
    /\ pc' = "store_err"
    /\ UNCHANGED fenced
    /\ UNCHANGED <<head, tail, buf_n, events, err, buffers, result>>
    /\ UNCHANGED lifeVars
    /\ UNCHANGED sharedVars
    /\ UNCHANGED <<written, delivered, entry, handled, stores, steps, probe>>

\* atomic::fence(Ordering::SeqCst) in the failing arm
FenceErr ==
    /\ pc = "err"
    /\ pc' = "store_err"
    /\ fenced' = TRUE
    /\ UNCHANGED <<head, tail, buf_n, events, err, buffers, result>>
    /\ UNCHANGED lifeVars
    /\ UNCHANGED sharedVars
    /\ UNCHANGED <<written, delivered, entry, handled, stores, steps, probe>>

\* the failing return as a mutant makes it: the error carries the size of
\* the record, not of the sample
StoreErr_RecordSize ==
    /\ pc = "store_err"
    /\ data_tail' = tail
    /\ stores' = stores + 1
    /\ UNCHANGED steps
    /\ result' = [kind |-> "MoreSpaceNeeded", read |-> 0, lost |-> 0,
                  size |-> HeaderSize + U32Size + err, exit |-> "oversize"]
    /\ pc' = "idle"
    /\ UNCHANGED <<head, tail, buf_n, events, err, buffers>>
    /\ UNCHANGED lifeVars
    /\ UNCHANGED <<ring, data_head>>
    /\ UNCHANGED <<written, delivered, entry, handled, fenced, probe>>

\* `(*header).data_tail = tail as u64; return Err(e)`
StoreErr ==
    /\ pc = "store_err"
    /\ data_tail' = tail
    /\ stores' = stores + 1
    /\ UNCHANGED steps
    /\ result' = [kind |-> "MoreSpaceNeeded", read |-> 0, lost |-> 0,
                  size |-> err, exit |-> "oversize"]
    /\ pc' = "idle"
    /\ UNCHANGED <<head, tail, buf_n, events, err, buffers>>
    /\ UNCHANGED lifeVars
    /\ UNCHANGED <<ring, data_head>>
    /\ UNCHANGED <<written, delivered, entry, handled, fenced, probe>>

\* ------------------------------------------------------------------------
\* The ring after open, fed by the producer and drained by read_events
\* ------------------------------------------------------------------------

Next ==
    \/ \E page_count \in 0..MaxPageCount, open_ok, mmap_ok, enable_ok, disable_ok \in BOOLEAN :
          Open(page_count, open_ok, mmap_ok, enable_ok, disable_ok)
    \/ \E disable_ok \in BOOLEAN : Drop(disable_ok)
    \/ \E kind \in RecordKinds : Produce(kind)
    \/ \E bufs \in BufferChoices : ReadEventsEntry(bufs)
    \/ \E g \in OobChoices : LoopStep(g)
    \/ FenceOk
    \/ StoreOk
    \/ FenceErr
    \/ StoreErr

Spec == Init /\ [][Next]_vars

\* ------------------------------------------------------------------------
\* The ring as the unit tests set it up: any start offset, packed records
\* ------------------------------------------------------------------------

\* page counts of the rings of this setup
TestPageCounts == {2, 4}

\* sample payload lengths of this setup; PerfSample<T> is packed after the
\* u32 length word, so a record need not be a multiple of 8 bytes
TestSampleLens == {0, 4}

\* capacities of the output buffers of this setup: `with_capacity(0)` and
\* `with_capacity(4)`
TestCaps == {0, 4}

TestBufferChoices ==
    UNION {{[i \in 1..n |-> Fresh(caps[i])] : caps \in [1..n -> TestCaps]} : n \in 0..MaxBufs}

TestKinds ==
    {[type_ |-> PERF_RECORD_SAMPLE, n |-> l] : l \in TestSampleLens}
    \cup {[type_ |-> PERF_RECORD_LOST, n |-> 0]}

\* `PerfBuffer::open(1, PAGE_SIZE, n).unwrap()` on the fake mapping, then
\* `mmapped_buf.mmap_page.data_tail = offset` with the first record to be
\* written at that offset
InitTest ==
    /\ life = "open"
    /\ openResult = "Ok"
    /\ fds = 1
    /\ maps = 1
    /\ syscalls = << <<"perf_event_open", TRUE>>, <<"mmap", TRUE>>,
                     <<"ioctl_enable", TRUE>> >>
    /\ \E page_count \in TestPageCounts :
          /\ openPageCount = page_count
          /\ size = PageSize * page_count
          /\ ring = [i \in 0..(PageSize * page_count - 1) |-> 0]
          /\ \E offset \in 0..(PageSize * page_count - 1) :
                data_head = offset /\ data_tail = offset
    /\ pc = "idle"
    /\ head = 0
    /\ tail = 0
    /\ buf_n = 0
    /\ events = [read |-> 0, lost |-> 0]
    /\ err = 0
    /\ buffers = <<>>
    /\ result = NoResult
    /\ written = <<>>
    /\ delivered = <<>>
    /\ entry = NoEntry
    /\ handled = <<>>
    /\ fenced = FALSE
    /\ stores = 0
    /\ steps = 0
    /\ probe = NoProbe

\* write(&mut mmapped_buf, offset, value): the record is stored at the
\* offset and data_head set to its end
TestWrite(kind) ==
    /\ Len(written) < TestRecords
    /\ AppendRecord(kind)

NextTest ==
    \/ \E kind \in TestKinds : TestWrite(kind)
    \/ \E bufs \in TestBufferChoices : ReadEventsEntry(bufs)
    \/ \E g \in OobChoices : LoopStep(g)
    \/ FenceOk
    \/ StoreOk
    \/ FenceErr
    \/ StoreErr

SpecTest == InitTest /\ [][NextTest]_vars

\* ------------------------------------------------------------------------
\* fill_buf applied on its own
\* ------------------------------------------------------------------------

\* a data area whose bytes tell its offsets apart
InitFill ==
    /\ life = "open"
    /\ openResult = "Ok"
    /\ fds = 1
    /\ maps = 1
    /\ syscalls = << <<"perf_event_open", TRUE>>, <<"mmap", TRUE>>,
                     <<"ioctl_enable", TRUE>> >>
    /\ \E page_count \in {1, 2} :
          /\ openPageCount = page_count
          /\ size = PageSize * page_count
          /\ ring = [i \in 0..(PageSize * page_count - 1) |-> i + 1]
    /\ data_head = 0
    /\ data_tail = 0
    /\ pc = "idle"
    /\ head = 0
    /\ tail = 0
    /\ buf_n = 0
    /\ events = [read |-> 0, lost |-> 0]
    /\ err = 0
    /\ buffers = <<>>
    /\ result = NoResult
    /\ written = <<>>
    /\ delivered = <<>>
    /\ entry = NoEntry
    /\ handled = <<>>
    /\ fenced = FALSE
    /\ stores = 0
    /\ steps = 0
    /\ probe = NoProbe

\* fill_buf(start_off, base, self.size, out_buf) with out_buf.len() = len
FillProbe(start_off, len) ==
    /\ probe.st = "none"
    /\ LET f == FillBuf(ring, start_off, size, len, Fault)
       IN  probe' = [off |-> start_off, len |-> len, st |-> f.st, bytes |-> f.bytes]
    /\ UNCHANGED lifeVars
    /\ UNCHANGED sharedVars
    /\ UNCHANGED localVars
    /\ UNCHANGED <<written, delivered, entry, handled, fenced, stores, steps>>

NextFill ==
    \E start_off \in 0..(2 * size - 1), len \in 0..size : FillProbe(start_off, len)

SpecFill == InitFill /\ [][NextFill]_vars

\* ------------------------------------------------------------------------
\* Vocabulary of the properties
\* ------------------------------------------------------------------------

IsSample(r) == r.type_ = PERF_RECORD_SAMPLE
IsLost(r)   == r.type_ = PERF_RECORD_LOST

\* the records written at offsets in [a, b), in write order
RecordsIn(a, b) == SelectSeq(written, LAMBDA r : a <= r.start /\ r.start < b)

\* the payloads of the samples of a sequence of records, in order
RECURSIVE SamplePayloads(_)
SamplePayloads(recs) ==
    IF recs = <<>> THEN <<>>
    ELSE (IF IsSample(Head(recs)) THEN <<Head(recs).payload>> ELSE <<>>)
         \o SamplePayloads(Tail(recs))

\* the sum of the count fields of the LOST records of a sequence of records
RECURSIVE LostTotal(_)
LostTotal(recs) ==
    IF recs = <<>> THEN 0 ELSE Head(recs).count + LostTotal(Tail(recs))

\* a read_events call is between its entry and its return
InCall == pc \in {"loop", "break", "err", "store_ok", "store_err"}

\* the last call returned Ok / Err(MoreSpaceNeeded) and no call has begun since
ReturnedOk  == pc = "idle" /\ result.kind = "Ok"
ReturnedErr == pc = "idle" /\ result.kind = "MoreSpaceNeeded"

\* a record lies across the end of the data area
Wraps(r) == (r.start % size) + r.size > size

\* ------------------------------------------------------------------------
\* Properties
\* ------------------------------------------------------------------------

\* C1: the sample payloads handed back by the Ok calls, in call order and
\* then buffer order, are a prefix of the payloads of the SAMPLE records in
\* write order: none skipped, repeated or reordered, each of its length N.
C1_DeliveredIsPrefix ==
    LET sp == SamplePayloads(written)
    IN  /\ Len(delivered) <= Len(sp)
        /\ \A i \in 1..Len(delivered) : delivered[i] = sp[i]

\* C1 witness: two samples or more were handed back, one of them written
\* across the end of the data area.
C1_Witness ==
    /\ Len(delivered) >= 2
    /\ \E i \in 1..Len(written) :
          /\ IsSample(written[i])
          /\ Wraps(written[i])
          /\ data_tail >= written[i].start + written[i].size

\* C2: a call that fails with MoreSpaceNeeded leaves data_tail where it was
\* at the call's entry.
C2_ErrKeepsTail == ReturnedErr => data_tail = entry.tail

\* C3: after an Ok call data_tail is the end of the last record the call
\* finished with (the entry value when it finished with none; an empty ring
\* gives (0, 0)); and data_tail never lies inside a record, every SAMPLE it
\* has passed having been handed back whole.
C3_TailAtRecordEnd ==
    /\ ReturnedOk =>
          /\ IF handled = <<>>
             THEN data_tail = entry.tail
             ELSE \E i \in 1..Len(written) :
                     /\ written[i].start = handled[Len(handled)]
                     /\ data_tail = written[i].start + written[i].size
          /\ entry.tail = entry.head =>
                result.read = 0 /\ result.lost = 0 /\ data_tail = entry.tail
    /\ \A i \in 1..Len(written) :
          LET r == written[i]
              rank == Len(SamplePayloads(SubSeq(written, 1, i)))
          IN  \/ data_tail <= r.start
              \/ /\ data_tail >= r.start + r.size
                 /\ IsSample(r) => rank <= Len(delivered) /\ delivered[rank] = r.payload

\* C3 witness: an Ok call finished with two records or more, a sample among
\* them, and published the end of the last one, which is the head.
C3_Witness ==
    /\ ReturnedOk
    /\ Len(handled) >= 2
    /\ result.read >= 1
    /\ data_tail = data_head

\* C4: when open returns an error, every file descriptor and mapping it had
\* obtained has been released, and there is no Ring.
C4_ErrorReleasesAll ==
    openResult \notin {"none", "Ok"} => fds = 0 /\ maps = 0 /\ life # "open"

\* C5: an Ok call that stopped at a sample too large for its target buffer
\* had handed back one sample or more, returns the counts gathered up to that
\* record, and publishes that record's start as data_tail; a call that has
\* not yet finished with a record stands at the published data_tail.
C5_EarlySuccessKeepsOversize ==
    /\ (ReturnedOk /\ result.exit = "oversize") =>
          /\ result.read >= 1
          /\ result.read = Len(SamplePayloads(RecordsIn(entry.tail, data_tail)))
          /\ result.lost = LostTotal(RecordsIn(entry.tail, data_tail))
          /\ \E i \in 1..Len(written) :
                /\ written[i].start = data_tail
                /\ IsSample(written[i])
                /\ Len(written[i].payload) > buffers[result.read + 1].cap
    /\ (InCall /\ handled = <<>>) => tail = data_tail

\* C5 witness: an Ok call stopped at an oversize sample after a sample.
C5_Witness == ReturnedOk /\ result.exit = "oversize" /\ result.read >= 1

\* C8: an Ok call returns as lost the sum of the counts of the LOST records
\* between data_tail at entry and data_tail at exit, and as read the number
\* of SAMPLE records there; the step over a LOST record uses up no output
\* buffer and leaves all of them as they were.
C8_LostAccounting ==
    /\ [](ReturnedOk =>
            /\ result.lost = LostTotal(RecordsIn(entry.tail, data_tail))
            /\ result.read = Len(SamplePayloads(RecordsIn(entry.tail, data_tail))))
    /\ [][(/\ pc = "loop"
           /\ tail' # tail
           /\ \E i \in 1..Len(written) :
                 written[i].start = tail /\ IsLost(written[i]))
          => (buffers' = buffers /\ buf_n' = buf_n)]_vars

\* C8 witness: two LOST records were counted by a call that left its only
\* buffer as the caller brought it.
C8_Witness ==
    /\ ReturnedOk
    /\ result.lost > 2 * 256
    /\ buffers = <<Fresh(4)>>

\* C9: within a call data_tail is not stored before the loop is over; the
\* one store follows a fence, and the fence follows the call's last read of
\* the data area.
C9_OneFencedStore ==
    /\ InCall => stores = 0 /\ data_tail = entry.tail
    /\ pc = "store_ok" \/ pc = "store_err" => fenced
    /\ stores > 0 => stores = 1 /\ fenced /\ pc = "idle"
    /\ (ReturnedOk \/ ReturnedErr) => stores = 1

\* C9 witness: a failing call has stored data_tail after reading records.
C9_Witness == ReturnedErr /\ stores = 1 /\ handled # <<>>

\* C10: a drain loads data_head once: while it runs, and when it returns,
\* its tail is within [data_tail at entry, data_head at entry], whatever the
\* producer has appended meanwhile; and every record at or after data_tail
\* is in the data area as the producer wrote it.
C10_SnapshotAndIntact ==
    /\ InCall => head = entry.head /\ entry.tail <= tail /\ tail <= entry.head
    /\ (ReturnedOk \/ ReturnedErr) => data_tail <= entry.head
    /\ \A i \in 1..Len(written) :
          LET r == written[i]
              bytes == RecordBytes([type_ |-> r.type_, n |-> Len(r.payload)], i)
          IN  r.start >= data_tail =>
                \A j \in 1..r.size : ring[(r.start + j - 1) % size] = bytes[j]

\* C10 witness: the loop ended at the head it loaded with a buffer to spare,
\* while the producer had appended a record during the drain.
C10_Witness ==
    /\ pc = "store_ok"
    /\ tail = head
    /\ events.read >= 1
    /\ buf_n < Len(buffers)
    /\ data_head > entry.head

\* the header of the record at ring offset event_start, its bytes taken at
\* (event_start + i) mod mmap_size
WrappedHeader(r, mmap_size, event_start) ==
    LET bytes == [i \in 1..HeaderSize |-> r[(event_start + i - 1) % mmap_size]]
    IN  [st    |-> "ok",
         type_ |-> FromBytes(SubSeq(bytes, 1, 4)),
         misc  |-> FromBytes(SubSeq(bytes, 5, 6)),
         size  |-> FromBytes(SubSeq(bytes, 7, 8))]

\* C6: when the header about to be loaded lies across the end of the data
\* area, the load yields the type and size formed from the ring bytes at
\* (tail + i) mod data_size, whatever lies past the data area, and does not
\* reach past it.
C6_StraddlingHeaderDecoded ==
    (pc = "loop" /\ ~LoopDone /\ (tail % size) + HeaderSize > size) =>
        \A g \in OobOutcomes :
            ReadHeader(ring, size, tail % size, g)
                = WrappedHeader(ring, size, tail % size)

\* C7: fill_buf of L bytes from offset O, 0 <= L <= data_size, completes and
\* writes exactly L bytes, byte i being the ring byte at (O + i) mod
\* data_size.
C7_FillMatchesModular ==
    probe.st # "none" =>
        /\ probe.st = "ok"
        /\ Len(probe.bytes) = probe.len
        /\ \A i \in 1..probe.len :
              probe.bytes[i] = ring[(probe.off + i - 1) % size]

\* fill_buf agrees with the modular reference whenever L >= 1
FillMatchesModularNonEmpty ==
    (probe.st # "none" /\ probe.len >= 1) =>
        /\ probe.st = "ok"
        /\ Len(probe.bytes) = probe.len
        /\ \A i \in 1..probe.len :
              probe.bytes[i] = ring[(probe.off + i - 1) % size]

\* the length word of a sample lying across the end of the data area is
\* decoded from the bytes at (tail + 8 + i) mod data_size
StraddlingLengthDecoded ==
    \A i \in 1..Len(written) :
        (IsSample(written[i]) /\ pc = "loop" /\ tail = written[i].start
            /\ (tail % size) + HeaderSize <= size)
        => FromBytes(FillBuf(ring, tail + HeaderSize, size, U32Size, Fault).bytes)
              = Len(written[i].payload)

\* C11: a read_events call with an empty slice of buffers returns NoBuffers
\* at once, whether or not the ring holds records, and changes neither
\* data_tail nor data_head nor a byte of the data area.
C11_EmptyBuffersRejected ==
    [][(/\ life = "open" /\ life' = "open"
        /\ pc = "idle"
        /\ written' = written
        /\ buffers' = <<>>
        /\ entry' = EntryOf(<<>>))
       => (/\ result'.kind = "NoBuffers"
           /\ pc' = "idle"
           /\ data_tail' = data_tail
           /\ data_head' = data_head
           /\ ring' = ring)]_vars

\* C11 witness: NoBuffers came back from a call on a ring that held records
\* not yet consumed.
C11_Witness ==
    /\ pc = "idle"
    /\ result.kind = "NoBuffers"
    /\ entry.tail # entry.head
    /\ data_tail = entry.tail
    /\ written # <<>>

\* the syscalls open itself makes (perf_event_open, mmap, enable) succeeded
OpenSyscallsOk ==
    /\ Len(syscalls) >= 3
    /\ \A i \in 1..3 : syscalls[i][2]

\* C12: open fails with InvalidPageCount exactly when page_count is not a
\* power of two: for 0, 3, 5, 6, 7, 9 it fails so before any syscall, with
\* no descriptor and no mapping; for 1, 2, 4, 8 with every syscall
\* succeeding it returns a Ring whose size is page_size * page_count.
C12_PowerOfTwoGate ==
    openResult # "none" =>
        /\ openResult = "InvalidPageCount"
              <=> ~(\E k \in 0..6 : openPageCount = 2 ^ k)
        /\ openPageCount \in {0, 3, 5, 6, 7, 9} => openResult = "InvalidPageCount"
        /\ openResult = "InvalidPageCount" =>
              syscalls = <<>> /\ fds = 0 /\ maps = 0 /\ life = "failed"
        /\ (openPageCount \in {1, 2, 4, 8} /\ OpenSyscallsOk) =>
              openResult = "Ok" /\ size = PageSize * openPageCount
        /\ life = "open" =>
              /\ openResult = "Ok"
              /\ size = PageSize * openPageCount
              /\ DOMAIN ring = 0..(size - 1)

\* C12 witness: open was refused a page count of 0.
C12_Witness == openResult = "InvalidPageCount" /\ openPageCount = 0

\* open returned a Ring of 8 pages
C12_OpenedEightPages == life = "open" /\ openPageCount = 8 /\ size = 8 * PageSize

\* how many times a syscall appears in the log
CountCalls(name) == Cardinality({i \in 1..Len(syscalls) : syscalls[i][1] = name})

\* C13: the release of a Ring (a Ring that was opened, or the one open built
\* before its enable ioctl failed) makes, in this order and once each, the
\* disable ioctl, whose failure stops nothing, the munmap of size + page_size
\* bytes and the close of the descriptor; once a Ring is released no
\* read_events call runs or begins on it and data_tail is stored no more.
C13_ReleaseInOrder ==
    /\ []((life = "dropped" \/ openResult = "PerfEventEnableError") =>
            /\ Len(syscalls) = 6
            /\ syscalls[4][1] = "ioctl_disable"
            /\ syscalls[5] = <<"munmap", PageSize * openPageCount + PageSize>>
            /\ syscalls[6] = <<"close", TRUE>>
            /\ CountCalls("ioctl_disable") = 1
            /\ CountCalls("munmap") = 1
            /\ CountCalls("close") = 1
            /\ fds = 0
            /\ maps = 0
            /\ ~InCall)
    /\ [](life = "open" =>
            /\ CountCalls("ioctl_disable") = 0
            /\ CountCalls("munmap") = 0
            /\ CountCalls("close") = 0)
    /\ [][life = "dropped" =>
            (/\ pc' = pc
             /\ entry' = entry
             /\ result' = result
             /\ data_tail' = data_tail
             /\ syscalls' = syscalls)]_vars

\* C13 witness: an opened Ring was released, its disable ioctl failing.
C13_Witness ==
    /\ life = "dropped"
    /\ openResult = "Ok"
    /\ syscalls[4] = <<"ioctl_disable", FALSE>>
    /\ Len(syscalls) = 6

\* C14: whatever the producer has appended and whatever calls have run,
\* returned Ok or failed, the published data_tail is not beyond data_head.
C14_TailNeverPassesHead ==
    life = "open" => data_tail <= data_head

\* C14 witness: after an Ok call that handed back a sample, a failing call
\* has stored a data_tail beyond the one it found and short of data_head.
C14_Witness ==
    /\ ReturnedErr
    /\ delivered # <<>>
    /\ data_tail > entry.tail
    /\ data_tail < data_head

\* C15: the step of the loop that meets a SAMPLE longer than the capacity
\* of its target buffer, whether the call then returns Ok early or fails
\* with MoreSpaceNeeded, leaves that buffer's length and contents as they
\* were.
C15_OversizeKeepsBuffer ==
    [][(pc = "loop" /\ (pc' = "break" \/ pc' = "err")) => buffers' = buffers]_vars

\* the step that meets an oversize sample leaves the capacity of its target
\* buffer and every other buffer as they were
OversizeKeepsOtherBuffers ==
    [][(pc = "loop" /\ (pc' = "break" \/ pc' = "err")) =>
          /\ Len(buffers') = Len(buffers)
          /\ \A i \in 1..Len(buffers) :
                /\ buffers'[i].cap = buffers[i].cap
                /\ i # buf_n + 1 => buffers'[i] = buffers[i]]_vars

\* C16: a call made right after a call that returned Ok early at a sample
\* too large for its target buffer, with buffers of the same capacities,
\* fails with MoreSpaceNeeded, whatever those capacities are.
C16_RepeatAfterEarlySuccessFails ==
    [][(InCall /\ pc' = "idle" /\ entry.after = "early")
       => result'.kind = "MoreSpaceNeeded"]_vars

\* such a call fails when the sample is too large for the first buffer too,
\* as it is when all capacities are equal, and returns Ok otherwise
RepeatFailsIffFirstTooSmall ==
    [][(InCall /\ pc' = "idle" /\ entry.after = "early")
       => \E i \in 1..Len(written) :
             /\ written[i].start = entry.tail
             /\ IsSample(written[i])
             /\ IF Len(written[i].payload) > entry.buffers[1].cap
                THEN /\ result'.kind = "MoreSpaceNeeded"
                     /\ result'.size = Len(written[i].payload)
                ELSE result'.kind = "Ok" /\ result'.read >= 1]_vars

\* the payloads of the samples written at offset t or after it, in order
SamplesFrom(t) == SamplePayloads(SelectSeq(written, LAMBDA r : r.start >= t))

\* C17: when a call has failed with MoreSpaceNeeded { size: N }, N is the
\* length of the first SAMPLE at or after the published data_tail; and the
\* call after it, when its first buffer has capacity N or more, returns Ok
\* with read >= 1 and that sample's payload, N bytes, in its first buffer.
C17_RetryWithRoomSucceeds ==
    /\ [](ReturnedErr =>
            /\ SamplesFrom(data_tail) # <<>>
            /\ result.size = Len(Head(SamplesFrom(data_tail))))
    /\ [][(/\ InCall
           /\ pc' = "idle"
           /\ entry.after = "err"
           /\ entry.buffers[1].cap >= entry.need)
          => (/\ result'.kind = "Ok"
              /\ result'.read >= 1
              /\ SamplesFrom(entry.tail) # <<>>
              /\ buffers'[1].data = Head(SamplesFrom(entry.tail))
              /\ Len(buffers'[1].data) = entry.need)]_vars

\* C17 witness: the call after a MoreSpaceNeeded { size: 12 } brought a first
\* buffer of capacity 12 and returned with the 12 bytes in it.
C17_Witness ==
    /\ ReturnedOk
    /\ entry.after = "err"
    /\ entry.need = 12
    /\ entry.buffers[1].cap = 12
    /\ result.read >= 1
    /\ Len(buffers[1].data) = 12

\* ------------------------------------------------------------------------
\* A caller that keeps draining with buffers large enough for any sample
\* ------------------------------------------------------------------------

\* the longest sample the producer writes
LargestSample == CHOOSE n \in SampleLens : \A m \in SampleLens : m <= n

\* one buffer or more, each with room for the longest sample
RoomyBufferChoices ==
    {bufs \in BufferChoices :
        bufs # <<>> /\ \A i \in 1..Len(bufs) : bufs[i].cap >= LargestSample}

NextDrain ==
    \/ \E page_count \in 0..MaxPageCount, open_ok, mmap_ok, enable_ok, disable_ok \in BOOLEAN :
          Open(page_count, open_ok, mmap_ok, enable_ok, disable_ok)
    \/ \E kind \in RecordKinds : Produce(kind)
    \/ \E bufs \in RoomyBufferChoices : ReadEventsEntry(bufs)
    \/ \E g \in OobChoices : LoopStep(g)
    \/ FenceOk
    \/ StoreOk

\* The thread inside read_events keeps running (the call takes no lock and
\* waits for nothing), and the caller calls again whenever a call returned.
\* The producer is under no obligation.
SpecDrain ==
    /\ Init
    /\ [][NextDrain]_vars
    /\ WF_vars(\E bufs \in RoomyBufferChoices : ReadEventsEntry(bufs))
    /\ WF_steps(LoopRuns)
    /\ WF_vars(FenceOk)
    /\ WF_vars(StoreOk)

\* C18: with one buffer or more in every call, each with room for the
\* longest sample, no call fails; every call that starts with data_tail #
\* data_head returns with data_tail advanced; and once the producer has
\* stopped, repeated calls bring data_tail to data_head, where it stays.
C18_DrainsToHead ==
    /\ [](/\ pc \notin {"err", "store_err", "panicked", "fault"}
          /\ result.kind \in {"none", "Ok"})
    /\ [][(InCall /\ pc' = "idle" /\ entry.tail # entry.head)
          => (result'.kind = "Ok" /\ data_tail' > entry.tail)]_vars
    /\ <>[](life = "open" => data_tail = data_head)

\* C18 witness: a second or later call has brought data_tail to data_head
\* after the producer wrote all its records, two samples or more among them.
C18_Witness ==
    /\ ReturnedOk
    /\ Len(written) = MaxRecords
    /\ data_tail = data_head
    /\ data_tail > entry.tail
    /\ entry.tail > 0
    /\ Len(delivered) >= 2

\* the steps that LoopRuns describes are the steps of LoopStep
LoopRunsIsLoopStep ==
    [][LoopRuns <=> \E g \in OobChoices : LoopStep(g)]_vars

\* ------------------------------------------------------------------------
\* A call that has begun keeps running
\* ------------------------------------------------------------------------

\* what follows the loop: a fence, then the store and the return (no two of
\* them are possible at once)
LeaveStep == FenceOk \/ StoreOk \/ FenceErr \/ StoreErr

\* a step of the call in progress
CallStep == LoopRuns \/ LeaveStep

\* The thread inside read_events is scheduled until the call returns.  The
\* caller and the producer are under no obligation.
SpecRun ==
    /\ Init
    /\ [][Next]_vars
    /\ WF_steps(LoopRuns)
    /\ WF_vars(LeaveStep)

\* C19: a call never begins more iterations of its loop than there are
\* records between data_tail and data_head at its entry; while it has not
\* returned, one of its own steps is possible whatever the producer does;
\* and it returns, through the store of the Ok path or of the failing arm.
C19_CallTerminates ==
    /\ [](/\ steps <= Len(RecordsIn(entry.tail, entry.head))
          /\ pc \notin {"panicked", "fault"}
          /\ InCall => ENABLED CallStep)
    /\ [][(InCall /\ pc' = "idle") => (pc = "store_ok" \/ pc = "store_err")]_vars
    /\ (InCall ~> pc = "idle")

\* C19 witness: a call has returned after as many iterations as there were
\* records to read, three or more, the last of them the failing one.
C19_Witness ==
    /\ ReturnedErr
    /\ steps >= 3
    /\ steps = Len(RecordsIn(entry.tail, entry.head))

\* a record of neither type that read_events decodes
IsOther(r) == ~IsSample(r) /\ ~IsLost(r)

\* C20: the iteration that meets a record that is neither SAMPLE nor LOST
\* advances the tail by that record's header.size and changes no buffer, nor
\* buf_n, nor events; once every buffer is used no further iteration runs,
\* so that an Ok call that used up its buffers short of the head publishes
\* the end of the last sample it handed back, leaving what follows it.
C20_OtherSkippedAndLeft ==
    /\ [][(/\ pc = "loop"
           /\ steps' = steps + 1
           /\ \E i \in 1..Len(written) :
                 written[i].start = tail /\ IsOther(written[i]))
          => (/\ pc' = "loop"
              /\ \E i \in 1..Len(written) :
                    /\ written[i].start = tail
                    /\ tail' = tail + written[i].size
              /\ buffers' = buffers
              /\ buf_n' = buf_n
              /\ events' = events)]_vars
    /\ [][(pc = "loop" /\ buf_n = Len(buffers))
          => (tail' = tail /\ steps' = steps)]_vars
    /\ []((ReturnedOk /\ result.exit = "full") =>
            /\ result.read = Len(buffers)
            /\ data_tail < entry.head
            /\ \E i \in 1..Len(written) :
                  /\ written[i].start = handled[Len(handled)]
                  /\ IsSample(written[i])
                  /\ data_tail = written[i].start + written[i].size)

\* C20 witness: a call passed such a record, handed back the sample after
\* it in its only buffer, and returned with another such record at
\* data_tail.
C20_Witness ==
    /\ ReturnedOk
    /\ result.exit = "full"
    /\ result.lost = 0
    /\ Len(handled) = 2
    /\ \E i, j \in 1..Len(written) :
          /\ written[i].start = entry.tail
          /\ IsOther(written[i])
          /\ written[j].start = data_tail
          /\ IsOther(written[j])

====
